---- MODULE Spec2Model ----
(***************************************************************************)
(* Model of Board.py: BaseHexField / ValueHexField (a hexagonal tile with  *)
(* axial coordinates, a value and six neighbor links) and HexBoard with    *)
(* its ring-growing constructor create_superhex_with_concentric_values and *)
(* the coordinate lookup get_field_at.                                     *)
(*                                                                         *)
(* Python objects live in `heap`, a sequence of field records; a reference *)
(* to a field is its index in the heap, so object identity (`is`) is       *)
(* equality of indices.  None is the reference 0.                          *)
(***************************************************************************)
EXTENDS Integers, Sequences, FiniteSets, TLC

\* ---------------------------------------------------------------- bounds
\* Largest radius passed to create_superhex_with_concentric_values.
MaxRadius == 2
\* Number of radii below 1 passed to it (0 and a negative radius).
MaxInvalid == 2
\* Smallest radius passed to it.
MinRadius == 1 - MaxInvalid
\* Opaque neighbor references 1..MaxRef handed to the field API.
MaxRef == 1
\* Largest number of keys in a neighbors dictionary handed to the field API.
MaxKeys == 2

\* ------------------------------------------------------------- vocabulary
None == 0

\* BaseHexField.__neighbor_directions__
Directions ==
    {"topleft", "topright", "bottomleft", "bottomright", "left", "right"}

\* A label that is not a direction, for callers that pass a wrong key.
BadKey == "up"
Keys == Directions \cup {BadKey}

\* Slip: "topright" given the adjustment of "right".
get_direction_adjustment_slip(direction) ==
    CASE direction = "topleft"     -> <<0, 0 - 1>>
      [] direction = "topright"    -> <<1, 0>>
      [] direction = "left"        -> <<0 - 1, 0>>
      [] direction = "right"       -> <<1, 0>>
      [] direction = "bottomleft"  -> <<0 - 1, 1>>
      [] direction = "bottomright" -> <<0, 1>>

\* BaseHexField.__direction_adjustment__ / get_direction_adjustment
get_direction_adjustment(direction) ==
    CASE direction = "topleft"     -> <<0, 0 - 1>>
      [] direction = "topright"    -> <<1, 0 - 1>>
      [] direction = "left"        -> <<0 - 1, 0>>
      [] direction = "right"       -> <<1, 0>>
      [] direction = "bottomleft"  -> <<0 - 1, 1>>
      [] direction = "bottomright" -> <<0, 1>>

\* BaseHexField.__opposite_direction__ / get_opposite_direction
get_opposite_direction(direction) ==
    CASE direction = "topleft"     -> "bottomright"
      [] direction = "topright"    -> "bottomleft"
      [] direction = "left"        -> "right"
      [] direction = "right"       -> "left"
      [] direction = "bottomleft"  -> "topright"
      [] direction = "bottomright" -> "topleft"

\* The iteration orders of the set __neighbor_directions__: Python fixes one
\* per process from the string hashes, the program does not choose it.
DirectionOrders ==
    {s \in [1..6 -> Directions] : \A a, b \in 1..6 : s[a] = s[b] => a = b}

\* An optional argument: <<>> is an omitted argument (None), <<x>> is x.
Omitted == <<>>
Given(x) == <<x>>

\* tuple(sum(x) for x in zip(a, b))
AddCoords(a, b) == <<a[1] + b[1], a[2] + b[2]>>

Abs(x) == IF x < 0 THEN 0 - x ELSE x
Max2(a, b) == IF a < b THEN b ELSE a
\* Ring distance of a coordinate pair from the center.
RingDistance(c) == Max2(Max2(Abs(c[1]), Abs(c[2])), Abs(c[1] + c[2]))

\* ------------------------------------------------------------ field class
\* Assignment to a dictionary entry: the key is added when it is missing.
DictPut(d, key, val) ==
    [k \in DOMAIN d \cup {key} |-> IF k = key THEN val ELSE d[k]]

\* BaseHexField.__init__, the neighbors part.
BaseHexField_init(neighbors) ==
    IF neighbors # Omitted
    THEN [key \in Directions |->
            IF key \in DOMAIN neighbors[1] THEN neighbors[1][key] ELSE None]
    ELSE [key \in Directions |-> None]

\* ValueHexField.__init__
ValueHexField(value, coords, neighbors) ==
    [coords    |-> coords,
     value     |-> value,
     neighbors |-> BaseHexField_init(neighbors)]

\* BaseHexField.set_neighbor: raises ValueError on a wrong direction.
set_neighbor_raises(direction) == direction \notin Directions
set_neighbor(nb, direction, neighbor) ==
    IF direction \in Directions THEN DictPut(nb, direction, neighbor) ELSE nb

\* Slip: the key is stored without the membership test of line 84.
set_neighbors_step_unchecked(nb, key, val) == DictPut(nb, key, val)

\* BaseHexField.set_neighbors: one loop step, wrong keys are skipped.
set_neighbors_step(nb, key, val) ==
    IF key \in Directions THEN DictPut(nb, key, val) ELSE nb

RECURSIVE set_neighbors_loop(_, _, _)
set_neighbors_loop(nb, neighbors, todo) ==
    IF todo = {} THEN nb
    ELSE LET key == CHOOSE k \in todo : TRUE
         IN set_neighbors_loop(set_neighbors_step(nb, key, neighbors[key]),
                               neighbors, todo \ {key})

set_neighbors(nb, neighbors) ==
    set_neighbors_loop(nb, neighbors, DOMAIN neighbors)

\* BaseHexField.get_neighbor: KeyError becomes ValueError.
get_neighbor_raises(nb, direction) == direction \notin DOMAIN nb
get_neighbor(nb, direction) ==
    IF direction \in DOMAIN nb THEN nb[direction] ELSE None

\* ------------------------------------------------------------------ state
VARIABLES
    heap,            \* all field objects created so far
    order,           \* iteration order of __neighbor_directions__
    pc,              \* position of the running call
    radius,          \* argument of create_superhex_with_concentric_values
    r,               \* ring index of the outer loop
    i,               \* index of the `for field in fields` loops
    fields,          \* local list `fields` (references)
    new_field_ring,  \* local list `new_field_ring` (references)
    final_fields,    \* local list `final_fields` (references)
    board,           \* HexBoard._fields of the returned board
    err,             \* exception raised by the last call, or "none"
    lookup,          \* last get_field_at call: argument and result
    call             \* last call of the field API: what it was given

vars == <<heap, order, pc, radius, r, i, fields, new_field_ring,
          final_fields, board, err, lookup, call>>

NoLookup == [arg |-> <<0, 0>>, res |-> None]
NoCall == [op |-> "none", bad |-> FALSE, res |-> None]

InitCommon ==
    /\ heap = <<>>
    /\ radius = 0
    /\ r = 0
    /\ i = 0
    /\ fields = <<>>
    /\ new_field_ring = <<>>
    /\ final_fields = <<>>
    /\ board = <<>>
    /\ err = "none"
    /\ lookup = NoLookup
    /\ call = NoCall

\* Before a board is created.
Init == InitCommon /\ pc = "idle" /\ order \in DirectionOrders

\* ------------------------------------------------------ board construction
\* Lines 181-187: the radius check and the center tile.
\* Slip: radius 0 accepted.
InvalidRadius_offbyone(rad) == rad < 0

\* Line 181: the rejected radii.
InvalidRadius(rad) == rad < 1

\* Slip: the rim gets value 0.
NewValue_offbyone(rad, rr) == rad - rr

\* Line 201: the value of the fields created for ring rr.
NewValue(rad, rr) == rad + 1 - rr

Create(rad) ==
    /\ pc = "idle"
    /\ radius' = rad
    /\ IF InvalidRadius(rad)
       THEN /\ err' = "ValueError"
            /\ pc' = "raised"
            /\ UNCHANGED <<heap, fields, r, i>>
       ELSE /\ heap' = <<ValueHexField(rad + 1, <<0, 0>>, Omitted)>>
            /\ fields' = <<1>>
            /\ r' = 1
            /\ i' = 1
            /\ pc' = IF 1 <= rad THEN "ring" ELSE "merge"
            /\ UNCHANGED err
    /\ UNCHANGED <<order, new_field_ring, final_fields, board, lookup, call>>

\* Lines 195-205: the direction loop for one field of the ring scan.
RECURSIVE SpawnLoop(_, _, _, _, _, _)
SpawnLoop(h, ring, field, dirs, k, val) ==
    IF k > Len(dirs) THEN [heap |-> h, ring |-> ring]
    ELSE LET direction == dirs[k] IN
         IF get_neighbor(h[field].neighbors, direction) = None
         THEN LET new_coords == AddCoords(h[field].coords,
                                   get_direction_adjustment(direction))
                  new_field == ValueHexField(val, new_coords,
                        Given(get_opposite_direction(direction) :> field))
                  id == Len(h) + 1
                  h1 == [h EXCEPT ![field].neighbors =
                                     set_neighbor(@, direction, id)]
              IN SpawnLoop(Append(h1, new_field), Append(ring, id),
                           field, dirs, k + 1, val)
         ELSE SpawnLoop(h, ring, field, dirs, k + 1, val)

\* Lines 194-205: one iteration of `for field in fields`.
RingField ==
    /\ pc = "ring"
    /\ i <= Len(fields)
    /\ LET out == SpawnLoop(heap, new_field_ring, fields[i], order, 1,
                            NewValue(radius, r))
       IN /\ heap' = out.heap
          /\ new_field_ring' = out.ring
    /\ i' = i + 1
    /\ UNCHANGED <<order, pc, radius, r, fields, final_fields, board, err,
                   lookup, call>>

\* Lines 190-191, 207, 213: end of one ring; next ring or the merge pass.
RingEnd ==
    /\ pc = "ring"
    /\ i > Len(fields)
    /\ fields' = fields \o new_field_ring
    /\ new_field_ring' = <<>>
    /\ i' = 1
    /\ IF r + 1 <= radius
       THEN r' = r + 1 /\ pc' = "ring"
       ELSE r' = r /\ pc' = "merge"
    /\ final_fields' = <<>>
    /\ UNCHANGED <<heap, order, radius, board, err, lookup, call>>

\* Slip: the two axes are confused in the comparison.
ExistingField_swapped(h, ff, coords) ==
    SelectSeq(ff, LAMBDA f : h[f].coords = <<coords[2], coords[1]>>)

\* Line 216: the fields of final_fields at the given coordinates.
ExistingField(h, ff, coords) ==
    SelectSeq(ff, LAMBDA f : h[f].coords = coords)

\* Slip: the link is copied without the test of line 223.
RECURSIVE MergeLoop_overwrite(_, _, _, _, _)
MergeLoop_overwrite(h, existing, field, dirs, k) ==
    IF k > Len(dirs) THEN h
    ELSE LET direction == dirs[k]
             neighbor == h[field].neighbors[direction]
         IN MergeLoop_overwrite([h EXCEPT ![existing].neighbors =
                                     set_neighbor(@, direction, neighbor)],
                                existing, field, dirs, k + 1)

\* Lines 222-225: copy the links the kept field does not have yet.
RECURSIVE MergeLoop(_, _, _, _, _)
MergeLoop(h, existing, field, dirs, k) ==
    IF k > Len(dirs) THEN h
    ELSE LET direction == dirs[k]
             neighbor == h[field].neighbors[direction]
         IN IF get_neighbor(h[existing].neighbors, direction) = None
            THEN MergeLoop([h EXCEPT ![existing].neighbors =
                                 set_neighbor(@, direction, neighbor)],
                           existing, field, dirs, k + 1)
            ELSE MergeLoop(h, existing, field, dirs, k + 1)

\* Lines 214-228: one iteration of the merge pass.
MergeStep ==
    /\ pc = "merge"
    /\ i <= Len(fields)
    /\ LET field == fields[i]
           coords == heap[field].coords
           existing_field == ExistingField(heap, final_fields, coords)
       IN CASE Len(existing_field) = 0 ->
                 /\ final_fields' = Append(final_fields, field)
                 /\ i' = i + 1
                 /\ UNCHANGED <<heap, pc, err>>
            [] Len(existing_field) = 1 ->
                 /\ heap' = MergeLoop(heap, existing_field[1], field,
                                      order, 1)
                 /\ i' = i + 1
                 /\ UNCHANGED <<final_fields, pc, err>>
            [] OTHER ->
                 /\ err' = "RuntimeError"
                 /\ pc' = "raised"
                 /\ UNCHANGED <<heap, final_fields, i>>
    /\ UNCHANGED <<order, radius, r, fields, new_field_ring, board, lookup,
                   call>>

\* Line 230 and HexBoard.__init__.
Return ==
    /\ pc = "merge"
    /\ i > Len(fields)
    /\ board' = final_fields
    /\ pc' = "done"
    /\ UNCHANGED <<heap, order, radius, r, i, fields, new_field_ring,
                   final_fields, err, lookup, call>>

\* HexBoard.get_fields
get_fields == board

\* Slip: the scan returns the first field it sees.
get_field_at_first(h, flds, coords) ==
    IF Len(flds) > 0 THEN flds[1] ELSE None

\* HexBoard.get_field_at: the first field with these coordinates, or None.
get_field_at(h, flds, coords) ==
    IF \E k \in 1..Len(flds) : h[flds[k]].coords = coords
    THEN flds[CHOOSE k \in 1..Len(flds) :
                /\ h[flds[k]].coords = coords
                /\ \A j \in 1..(k - 1) : h[flds[j]].coords # coords]
    ELSE None

\* Coordinates asked of get_field_at: the hexagon and a margin around it.
LookupRange == (0 - (MaxRadius + 1))..(MaxRadius + 1)
LookupCoords == LookupRange \X LookupRange

\* A caller looks a coordinate pair up on the returned board.
GetFieldAt(coords) ==
    /\ pc = "done"
    /\ lookup' = [arg |-> coords, res |-> get_field_at(heap, board, coords)]
    /\ pc' = "looked"
    /\ UNCHANGED <<heap, order, radius, r, i, fields, new_field_ring,
                   final_fields, board, err, call>>

\* ------------------------------------------------------------- field API
\* The dictionaries a caller hands to __init__ and set_neighbors: at most
\* MaxKeys keys, recognized or not, each with a reference or None.
Refs == 0..MaxRef
NeighborDicts ==
    UNION {[K -> Refs] : K \in {S \in SUBSET Keys : Cardinality(S) <= MaxKeys}}

HasBadKey(neighbors) == \E k \in DOMAIN neighbors : k \notin Directions

\* A caller constructs one field on its own.
FieldInit ==
    InitCommon /\ pc = "field" /\ order = <<>>

\* ValueHexField(coords=(0, 0), neighbors=...), lines 38-61 and 109-117.
NewField(neighbors) ==
    /\ pc = "field"
    /\ heap = <<>>
    /\ heap' = <<ValueHexField(None, <<0, 0>>, neighbors)>>
    /\ call' = [op |-> "init",
                bad |-> (neighbors # Omitted /\ HasBadKey(neighbors[1])),
                res |-> None]
    /\ err' = "none"
    /\ UNCHANGED <<order, pc, radius, r, i, fields, new_field_ring,
                   final_fields, board, lookup>>

\* field.set_neighbor(direction, neighbor), lines 75-80.
SetNeighbor(direction, neighbor) ==
    /\ pc = "field"
    /\ heap # <<>>
    /\ heap' = [heap EXCEPT ![1].neighbors =
                                set_neighbor(@, direction, neighbor)]
    /\ err' = IF set_neighbor_raises(direction) THEN "ValueError" ELSE "none"
    /\ call' = [op |-> "set_neighbor", bad |-> direction \notin Directions,
                res |-> None]
    /\ UNCHANGED <<order, pc, radius, r, i, fields, new_field_ring,
                   final_fields, board, lookup>>

\* field.set_neighbors(neighbors), lines 82-85.
SetNeighbors(neighbors) ==
    /\ pc = "field"
    /\ heap # <<>>
    /\ heap' = [heap EXCEPT ![1].neighbors = set_neighbors(@, neighbors)]
    /\ err' = "none"
    /\ call' = [op |-> "set_neighbors", bad |-> HasBadKey(neighbors),
                res |-> None]
    /\ UNCHANGED <<order, pc, radius, r, i, fields, new_field_ring,
                   final_fields, board, lookup>>

\* field.get_neighbor(direction), lines 87-92.
GetNeighbor(direction) ==
    /\ pc = "field"
    /\ heap # <<>>
    /\ err' = IF get_neighbor_raises(heap[1].neighbors, direction)
              THEN "ValueError" ELSE "none"
    /\ call' = [op |-> "get_neighbor", bad |-> direction \notin Directions,
                res |-> get_neighbor(heap[1].neighbors, direction)]
    /\ UNCHANGED <<heap, order, pc, radius, r, i, fields, new_field_ring,
                   final_fields, board, lookup>>

FieldNext ==
    \/ \E neighbors \in {Omitted} \cup {Given(m) : m \in NeighborDicts} :
          NewField(neighbors)
    \/ \E direction \in Keys, neighbor \in Refs :
          SetNeighbor(direction, neighbor)
    \/ \E neighbors \in NeighborDicts : SetNeighbors(neighbors)
    \/ \E direction \in Keys : GetNeighbor(direction)

FieldSpec == FieldInit /\ [][FieldNext]_vars

Next ==
    \/ \E rad \in MinRadius..MaxRadius : Create(rad)
    \/ RingField
    \/ RingEnd
    \/ MergeStep
    \/ Return
    \/ \E coords \in LookupCoords : GetFieldAt(coords)

Spec == Init /\ [][Next]_vars

\* The steps of the constructor after the radius check.
Construction == RingField \/ RingEnd \/ MergeStep \/ Return

\* ------------------------------------------------------------- properties
Returned == pc \in {"done", "looked"}
BoardSet == {get_fields[k] : k \in 1..Len(get_fields)}
InHexagon(c, R) == Abs(c[1]) <= R /\ Abs(c[2]) <= R /\ Abs(c[1] + c[2]) <= R
HasAbsentNeighbor(f) == \E d \in Directions : heap[f].neighbors[d] = None
UniqueCoords(refs) ==
    \A j, k \in 1..Len(refs) :
        heap[refs[j]].coords = heap[refs[k]].coords => j = k

\* C1: the returned board has exactly 3R^2 + 3R + 1 fields, no two of them
\* at the same coordinates, and every one of them inside the hexagon of
\* radius R.
C1_HexagonShape ==
    Returned =>
        /\ Len(get_fields) = 3 * radius * radius + 3 * radius + 1
        /\ UniqueCoords(get_fields)
        /\ \A f \in BoardSet : InHexagon(heap[f].coords, radius)

\* A board of radius >= 2 was returned and duplicates were dropped for it.
C1_Witness ==
    pc = "done" /\ radius >= 2 /\ Len(fields) > Len(get_fields)

\* C2: every field of the returned board has value R + 1 - d, d its ring
\* distance; the center has R + 1 and the rim 1.
C2_ConcentricValues ==
    Returned =>
        /\ \A f \in BoardSet :
              heap[f].value = radius + 1 - RingDistance(heap[f].coords)
        /\ heap[get_field_at(heap, get_fields, <<0, 0>>)].value = radius + 1
        /\ \A f \in BoardSet :
              RingDistance(heap[f].coords) = radius => heap[f].value = 1

\* A board was returned for which a dropped duplicate carried another value
\* than the field kept at its coordinates.
C2_Witness ==
    /\ pc = "done"
    /\ radius >= 2
    /\ \E k \in 1..Len(fields) :
          /\ fields[k] \notin BoardSet
          /\ heap[fields[k]].value #
             heap[get_field_at(heap, get_fields,
                               heap[fields[k]].coords)].value

\* C3: neighbor symmetry: if field A of the returned board has B as its
\* neighbor in direction D, B's neighbor in the opposite direction is the
\* very object A.
C3_NeighborSymmetry ==
    Returned =>
        \A A \in BoardSet : \A D \in Directions :
            LET B == heap[A].neighbors[D]
            IN B # None =>
                 heap[B].neighbors[get_opposite_direction(D)] = A

\* C4: complete linkage: two fields of the returned board at adjacent
\* coordinates are each other's neighbors in the two opposite directions.
C4_CompleteLinkage ==
    Returned =>
        \A A \in BoardSet : \A B \in BoardSet : \A D \in Directions :
            heap[B].coords =
                AddCoords(heap[A].coords, get_direction_adjustment(D))
            => /\ heap[A].neighbors[D] = B
               /\ heap[B].neighbors[get_opposite_direction(D)] = A

\* C5: boundary completeness: a field of the returned board has an absent
\* neighbor exactly when its ring distance is R.
C5_BoundaryCompleteness ==
    Returned =>
        \A f \in BoardSet :
            HasAbsentNeighbor(f) <=> RingDistance(heap[f].coords) = radius

\* A board with an inner ring was returned: a field off the center has all
\* six neighbors and a rim field lacks one.
C5_Witness ==
    /\ pc = "done"
    /\ \E f \in BoardSet :
          /\ RingDistance(heap[f].coords) = 1
          /\ ~HasAbsentNeighbor(f)
    /\ \E f \in BoardSet :
          /\ RingDistance(heap[f].coords) = radius
          /\ HasAbsentNeighbor(f)

\* What get_field_at has to return for the last lookup.
LookupCorrect ==
    IF InHexagon(lookup.arg, radius)
    THEN /\ lookup.res \in BoardSet
         /\ heap[lookup.res].coords = lookup.arg
    ELSE lookup.res = None

\* C6: lookup correctness: get_field_at returns a field of the board with
\* exactly the coordinates asked for when they lie inside the hexagon and
\* None otherwise, and the call changes no field and no link.
C6_LookupCorrect ==
    [][pc = "done" /\ pc' = "looked" =>
          /\ LookupCorrect'
          /\ heap' = heap
          /\ board' = board]_vars

\* A rim field of a board of radius >= 2 was looked up and found.
C6_Witness ==
    /\ pc = "looked"
    /\ radius >= 2
    /\ lookup.res # None
    /\ RingDistance(lookup.arg) = radius

\* C7: creation with a radius < 1 raises ValueError before any field exists
\* and returns no board; creation with a radius >= 1 never raises it.
C7_RadiusCheck ==
    pc # "idle" /\ pc # "field" =>
        /\ radius < 1 =>
              /\ pc = "raised"
              /\ err = "ValueError"
              /\ heap = <<>>
              /\ board = <<>>
        /\ radius >= 1 => err # "ValueError"

\* Radius 0 was rejected.
C7_Witness ==
    pc = "raised" /\ radius = 0 /\ err = "ValueError"

\* C8: six-key invariant: the key set of every field's neighbor mapping is
\* exactly the six directions, so get_neighbor on a direction never raises.
C8_SixKeys ==
    /\ \A f \in DOMAIN heap :
          /\ DOMAIN heap[f].neighbors = Directions
          /\ \A d \in Directions :
                ~get_neighbor_raises(heap[f].neighbors, d)
    /\ (call.op = "get_neighbor" /\ ~call.bad) => err # "ValueError"

\* set_neighbors was handed a dictionary with an unrecognized key for a
\* field that has a neighbor.
C8_Witness ==
    /\ pc = "field"
    /\ call.op = "set_neighbors"
    /\ call.bad
    /\ \E d \in Directions : heap[1].neighbors[d] # None

\* C9: the multiple-match failure is unreachable: at every step of the
\* merge scan final_fields holds at most one field per coordinate pair,
\* RuntimeError is never raised, and a creation that passed the radius check
\* never stops short of returning a board (it always has a next step and the
\* only error it can end in is the rejection of the radius).
C9_NoMultipleMatch ==
    /\ UniqueCoords(final_fields)
    /\ err # "RuntimeError"
    /\ pc = "raised" => radius < 1
    /\ pc \in {"ring", "merge"} => ENABLED Construction

\* The merge pass is under way and has already met a duplicate.
C9_Witness ==
    /\ pc = "merge"
    /\ i <= Len(fields)
    /\ i - 1 > Len(final_fields)

\* C10: closure: every present neighbor of a field of the returned board is
\* itself a field of the board, the one get_field_at finds at its
\* coordinates, with the value of its ring.
C10_Closure ==
    Returned =>
        \A A \in BoardSet : \A D \in Directions :
            LET B == heap[A].neighbors[D]
            IN B # None =>
                 /\ B \in BoardSet
                 /\ B = get_field_at(heap, get_fields, heap[B].coords)
                 /\ heap[B].value =
                        radius + 1 - RingDistance(heap[B].coords)

====
